---- MODULE Spec2Model ----
(***************************************************************************)
(* Model of the JACK synthesizer of src/src/main.rs: a pool of voices      *)
(* (Note), each with an ADSR envelope state machine (EnvelopeStage), the   *)
(* MIDI event router (handle_midi, note_on, note_off) and the per-frame    *)
(* renderer (get_audio_data, Note::increment_time).                        *)
(*                                                                         *)
(* Scaling.  The source fixes ATTACK = 2000, DECAY = 2000, RELEASE = 5000  *)
(* samples and 128 voices.  The model keeps the code's transition          *)
(* structure and states every property in terms of ATTACK, DECAY, RELEASE  *)
(* and NumNotes, but gives them small values so that whole envelopes are   *)
(* explored exhaustively.                                                  *)
(*                                                                         *)
(* Amplitudes.  The source computes amplitudes in f32.  The model computes *)
(* the same expressions, operation by operation, in binary32 arithmetic    *)
(* with round-to-nearest-even.                                            *)
(* The oscillator factor sin(x) is not computed: the model keeps the       *)
(* envelope amplitude and the phase counter that enter each contribution.  *)
(***************************************************************************)
EXTENDS Integers, Sequences, FiniteSets, TLC

\* ---------------------------------------------------------------- bounds
\* Envelope durations in samples (scaled stand-ins for main.rs:5,6,8).
ATTACK == 2
DECAY == 2
RELEASE == 3
\* Number of voices in the pool (scaled stand-in for the 128 of main.rs:126).
NumNotes == 2
\* Frames per process callback (the host's block size).
BlockSize == 2
\* Number of MIDI messages delivered in one behaviour when they may address
\* any pitch; one more is delivered when they all address pitch 0.
MaxEvents == 2

\* Velocity bytes the model draws from (0..127 in MIDI).
Velocities == {0, 42, 127}
\* Status bytes: note-off 0x80, note-on 0x90, polyphonic aftertouch 0xA0.
StatusBytes == {128, 144, 160}
\* Pitch bytes: every valid index and one byte beyond the pool.
PitchBytes == 0 .. NumNotes
Pitches == 0 .. (NumNotes - 1)
\* Cap on the per-voice sample counter, enough for a full envelope.
MaxTime == ATTACK + DECAY + RELEASE + BlockSize + 3

\* ------------------------------------------------------------------ f32
\* An f32 value is <<m, e>>, standing for m * 2^e: m = 0 and e = 0, or
\* 2^23 <= |m| < 2^24 (a 24-bit significand).  Every operation computes the
\* exact result and rounds it to the nearest such value, ties to even, as
\* IEEE 754 binary32 does; exponent overflow, subnormals, infinities and
\* NaN are outside the range of the values this program computes.
Abs(n) == IF n < 0 THEN 0 - n ELSE n
Sign(n) == IF n < 0 THEN 0 - 1 ELSE 1

\* The number of binary digits of n >= 0.
RECURSIVE BitLen(_)
BitLen(n) ==
    IF n = 0 THEN 0
    ELSE IF n >= 256 THEN 8 + BitLen(n \div 256)
    ELSE 1 + BitLen(n \div 2)

\* n / 2^k rounded to the nearest integer, ties to even; `sticky` says that
\* the exact value lies strictly above n.
RoundShift(n, k, sticky) ==
    LET q == n \div (2 ^ k)
        r == 2 * (n % (2 ^ k)) + (IF sticky THEN 1 ELSE 0)
        half == 2 ^ k
    IN  IF r > half \/ (r = half /\ q % 2 = 1) THEN q + 1 ELSE q

\* The f32 nearest to sign * (n + fraction) * 2^e, 0 < n < 2^31.
Normalize(sign, n, e, sticky) ==
    LET len == BitLen(n)
    IN  IF len > 24
        THEN LET q == RoundShift(n, len - 24, sticky)
             IN  IF q = 2 ^ 24
                 THEN <<sign * (2 ^ 23), e + len - 23>>
                 ELSE <<sign * q, e + len - 24>>
        ELSE <<sign * n * (2 ^ (24 - len)), e - (24 - len)>>

Zero == <<0, 0>>

\* `n as f32` for a small non-negative integer.
FromInt(n) == IF n = 0 THEN Zero ELSE Normalize(1, n, 0, FALSE)

FNeg(x) == <<0 - x[1], x[2]>>
FAbs(x) == <<Abs(x[1]), x[2]>>

FMul(x, y) ==
    IF x[1] = 0 \/ y[1] = 0 THEN Zero
    ELSE LET a1 == Abs(x[1]) \div 4096
             a0 == Abs(x[1]) % 4096
             b1 == Abs(y[1]) \div 4096
             b0 == Abs(y[1]) % 4096
             mid == a1 * b0 + a0 * b1
             t == (mid % 4096) * 4096 + a0 * b0
             lo == t % (2 ^ 24)
             hi == a1 * b1 + (mid \div 4096) + (t \div (2 ^ 24))
         IN  Normalize(Sign(x[1]) * Sign(y[1]),
                       hi * 8 + (lo \div (2 ^ 21)),
                       x[2] + y[2] + 21,
                       lo % (2 ^ 21) # 0)

\* One step of long division by d: seven more quotient bits.
DivStep(qr, d) == <<qr[1] * 128 + ((qr[2] * 128) \div d), (qr[2] * 128) % d>>

FDiv(x, y) ==
    IF x[1] = 0 THEN Zero
    ELSE LET d == Abs(y[1])
             s0 == <<Abs(x[1]) \div d, Abs(x[1]) % d>>
             s4 == DivStep(DivStep(DivStep(DivStep(s0, d), d), d), d)
         IN  Normalize(Sign(x[1]) * Sign(y[1]), s4[1],
                       x[2] - y[2] - 28, s4[2] # 0)

FAdd(x, y) ==
    IF x[1] = 0 THEN y
    ELSE IF y[1] = 0 THEN x
    ELSE LET big == IF x[2] >= y[2] THEN x ELSE y
             small == IF x[2] >= y[2] THEN y ELSE x
             d == big[2] - small[2]
         IN  IF d > 26 THEN big
             ELSE LET mb == Abs(big[1]) * 8
                      full == Abs(small[1]) * 8
                      ms == full \div (2 ^ d)
                      st == full % (2 ^ d) # 0
                  IN  IF Sign(big[1]) = Sign(small[1])
                      THEN Normalize(Sign(big[1]), mb + ms, big[2] - 3, st)
                      ELSE IF mb = ms /\ ~st THEN Zero
                      ELSE IF mb > ms
                      THEN Normalize(Sign(big[1]),
                                     mb - ms - (IF st THEN 1 ELSE 0),
                                     big[2] - 3, st)
                      ELSE Normalize(Sign(small[1]), ms - mb, big[2] - 3, FALSE)

FSub(x, y) == FAdd(x, FNeg(y))

\* x <= y, exactly.
FLeq(x, y) ==
    IF x[1] <= 0 /\ y[1] >= 0 THEN TRUE
    ELSE IF x[1] >= 0 /\ y[1] <= 0 THEN x[1] = 0 /\ y[1] = 0
    ELSE IF x[1] > 0
         THEN x[2] < y[2] \/ (x[2] = y[2] /\ x[1] <= y[1])
         ELSE x[2] > y[2] \/ (x[2] = y[2] /\ x[1] <= y[1])

\* 2^-22: four units in the last place of a value in [1, 2).
Ulps == <<8388608, 0 - 45>>

\* x is y up to rounding: |x - y| <= |y| * 2^-22.  The difference of two
\* values this close and the product by a power of two are exact.
Close(x, y) == FLeq(FAbs(FSub(x, y)), FMul(FAbs(y), Ulps))

\* The same value with an odd significand.
RECURSIVE Strip(_)
Strip(x) ==
    IF x[1] = 0 \/ x[1] % 2 = 1 THEN x ELSE Strip(<<x[1] \div 2, x[2] + 1>>)

\* x * 2^(-e) as an integer, for e at most the exponent of Strip(x).
Scaled(x, e) == Strip(x)[1] * (2 ^ (Strip(x)[2] - e))

\* n * (x - y) <= a in the reals, that is x - y <= a / n, for values whose
\* last binary digits lie within a few places of each other.
StepLeq(n, x, y, a) ==
    LET es == {Strip(v)[2] : v \in {w \in {x, y, a} : w[1] # 0}}
        e == IF es = {} THEN 0 ELSE CHOOSE m \in es : \A k \in es : m <= k
    IN  n * (Scaled(x, e) - Scaled(y, e)) <= Scaled(a, e)

\* ------------------------------------------------------------ constants
\* 0.5 and 0.6 as f32 literals (0x3F000000, 0x3F19999A).
MAX_AMPLITUDE == <<8388608, 0 - 24>>
SUSTAIN == <<10066330, 0 - 24>>

\* -------------------------------------------------------- EnvelopeStage
Attack(phase_timer, amplitude_start, amplitude_end) ==
    <<"Attack", phase_timer, amplitude_start, amplitude_end>>
Decay(phase_timer, amplitude_start, amplitude_end) ==
    <<"Decay", phase_timer, amplitude_start, amplitude_end>>
Sustain(level) == <<"Sustain", level>>
Release(phase_timer, amplitude_start) == <<"Release", phase_timer, amplitude_start>>
Off == <<"Off">>

\* Option<usize>
None == <<>>
Some(x) == <<x>>

\* ----------------------------------------------------------------- Note
Note_new ==
    [velocity |-> 0, time |-> 0, envelope_stage |-> Off, next_start_frame |-> None]

fractional_velocity(note) == FDiv(FromInt(note.velocity), FromInt(127))

amplitude(note) ==
    LET st == note.envelope_stage
    IN  CASE st[1] = "Attack" ->
                FAdd(st[3], FDiv(FMul(FSub(st[4], st[3]), FromInt(st[2])),
                                 FromInt(ATTACK)))
          [] st[1] = "Decay" ->
                FSub(st[3], FDiv(FMul(FSub(st[3], st[4]), FromInt(st[2])),
                                 FromInt(DECAY)))
          [] st[1] = "Sustain" -> st[2]
          [] st[1] = "Release" ->
                FSub(st[3], FDiv(FMul(st[3], FromInt(st[2])), FromInt(RELEASE)))
          [] st[1] = "Off" -> Zero

\* Variant of release: the release starts from the velocity's full level.
release_from_full(note) ==
    [note EXCEPT !.envelope_stage = Release(0, fractional_velocity(note))]

release(note) ==
    [note EXCEPT !.envelope_stage = Release(0, amplitude(note))]

\* Variant of activate: every attack starts from silence.
activate_from_zero(note) ==
    [note EXCEPT !.next_start_frame = None,
                 !.envelope_stage = Attack(0, Zero, fractional_velocity(note))]

\* Note::increment_time, lines 72-77: the scheduled note-on takes effect.
activate(note) ==
    [note EXCEPT !.next_start_frame = None,
                 !.envelope_stage =
                     Attack(0, amplitude(note), fractional_velocity(note))]

\* Note::increment_time, the three arms of the match on envelope_stage.
attack_arm(note) ==
    LET st == note.envelope_stage
    IN  IF st[2] = ATTACK
        THEN [note EXCEPT !.envelope_stage =
                 Decay(0, fractional_velocity(note),
                       FMul(fractional_velocity(note), SUSTAIN))]
        ELSE [note EXCEPT !.envelope_stage = Attack(st[2] + 1, st[3], st[4])]

\* Variant of decay_arm: the switch is taken one sample early.
decay_arm_early(note) ==
    LET st == note.envelope_stage
    IN  IF st[2] + 1 = DECAY
        THEN [note EXCEPT !.envelope_stage =
                 Sustain(FMul(fractional_velocity(note), SUSTAIN))]
        ELSE [note EXCEPT !.envelope_stage = Decay(st[2] + 1, st[3], st[4])]

decay_arm(note) ==
    LET st == note.envelope_stage
    IN  IF st[2] = DECAY
        THEN [note EXCEPT !.envelope_stage =
                 Sustain(FMul(fractional_velocity(note), SUSTAIN))]
        ELSE [note EXCEPT !.envelope_stage = Decay(st[2] + 1, st[3], st[4])]

\* Variant of release_arm: the switch is taken one sample early.
release_arm_early(note) ==
    LET st == note.envelope_stage
    IN  IF st[2] + 1 = RELEASE
        THEN [note EXCEPT !.envelope_stage = Off]
        ELSE [note EXCEPT !.envelope_stage = Release(st[2] + 1, st[3])]

release_arm(note) ==
    LET st == note.envelope_stage
    IN  IF st[2] = RELEASE
        THEN [note EXCEPT !.envelope_stage = Off]
        ELSE [note EXCEPT !.envelope_stage = Release(st[2] + 1, st[3])]

\* Variant of tick: the counter restarts when the scheduled frame arrives.
tick_reset(note, frame) ==
    IF note.next_start_frame = Some(frame)
    THEN [note EXCEPT !.time = 0]
    ELSE [note EXCEPT !.time = @ + 1]

\* Note::increment_time, line 70.
tick(note, frame) == [note EXCEPT !.time = @ + 1]

\* Variant of other_arm: a sustained voice starts its release by itself.
other_arm_fades(note) ==
    IF note.envelope_stage[1] = "Sustain" THEN release(note) ELSE note

\* Note::increment_time, line 101: the arm of Sustain and Off.
other_arm(note) == note

increment_time(note, frame) ==
    LET n1 == tick(note, frame)
        n2 == IF n1.next_start_frame = Some(frame) THEN activate(n1) ELSE n1
        tag == n2.envelope_stage[1]
    IN  CASE tag = "Attack" -> attack_arm(n2)
          [] tag = "Decay" -> decay_arm(n2)
          [] tag = "Release" -> release_arm(n2)
          [] OTHER -> other_arm(n2)

\* Variants of skipped: no voice is passed over; every silent voice is.
skipped_never(note) == FALSE
skipped_when_off(note) == note.envelope_stage = Off

\* get_audio_data, line 171: the voices the render loop passes over.
skipped(note) == note.envelope_stage = Off /\ note.next_start_frame = None

\* ---------------------------------------------------------------- state
VARIABLES
    notes,      \* Synthesizer.notes: pitch -> Note
    pc,         \* position in the process closure: "midi" or "frames"
    frame,      \* index of the next frame the closure renders
    panicked,   \* an index out of bounds has aborted the callback
    env,        \* per voice, note.amplitude() as read for the last rendered
                \* frame (line 176); Zero for a voice the loop passed over
    events,     \* number of MIDI messages handled so far
    last,       \* the operation that produced this state, with its inputs
    hist,       \* per voice, frames rendered since its last note event
    held,       \* per voice, the velocity it had when its pending start was set
    osc,        \* per voice, note.time as read for the last rendered frame
                \* (line 175); 0 for a voice the loop passed over
    blk,        \* per voice, the note-ons handled and the activations made
                \* in the current invocation of the process closure
    solo        \* per pitch p, a second synthesizer that is given only the
                \* note messages for p and renders the same frames (it runs
                \* under SpecShadow and rests under the other specifications)

vars ==
    <<notes, pc, frame, panicked, env, events, last, hist, held, osc, blk, solo>>

RawMidi == [status : StatusBytes, pitch : PitchBytes,
            velocity : Velocities, time : 0 .. (BlockSize - 1)]

NoHist == [kind |-> "none", n |-> 0, vel |-> 0, amp |-> Zero, from |-> "Off"]
HistCap == ATTACK + DECAY + RELEASE + 3

\* No note-on and no activation yet in this invocation.  ons counts the
\* note-ons (2 stands for two or more), first and o are the offsets of the
\* first and of the latest of them, v is the velocity of the latest; acts
\* counts the activations, at is the frame of the latest and to its target.
NoBlk == [ons |-> 0, first |-> 0, o |-> 0, v |-> 0,
          acts |-> 0, at |-> 0, to |-> Zero]

Init ==
    /\ notes = [p \in Pitches |-> Note_new]
    /\ pc = "midi"
    /\ frame = 0
    /\ panicked = FALSE
    /\ env = [p \in Pitches |-> Zero]
    /\ events = 0
    /\ last = [op |-> "new"]
    /\ hist = [p \in Pitches |-> NoHist]
    /\ held = [p \in Pitches |-> 0]
    /\ osc = [p \in Pitches |-> 0]
    /\ blk = [p \in Pitches |-> NoBlk]
    /\ solo = [p \in Pitches |->
                  [notes |-> [q \in Pitches |-> Note_new],
                   env |-> [q \in Pitches |-> Zero],
                   osc |-> [q \in Pitches |-> 0]]]

\* --------------------------------------------------------- Synthesizer
\* Variant of note_on: the latest note-on cancels the starts still pending
\* on the other voices.
note_on_steal(pool, pitch, velocity, start_time) ==
    [q \in DOMAIN pool |->
        IF q = pitch
        THEN [pool[q] EXCEPT !.velocity = velocity,
                             !.next_start_frame = Some(start_time)]
        ELSE [pool[q] EXCEPT !.next_start_frame = None]]

\* Variant of note_on: a start that is already pending is kept.
note_on_keep_pending(pool, pitch, velocity, start_time) ==
    IF pool[pitch].next_start_frame # None
    THEN [pool EXCEPT ![pitch].velocity = velocity]
    ELSE [pool EXCEPT ![pitch].velocity = velocity,
                      ![pitch].next_start_frame = Some(start_time)]

note_on(pool, pitch, velocity, start_time) ==
    [pool EXCEPT ![pitch].velocity = velocity,
                 ![pitch].next_start_frame = Some(start_time)]

note_off(pool, pitch) == [pool EXCEPT ![pitch] = release(pool[pitch])]

\* The message kind handle_midi dispatches on (line 150).
kind(status) == status \div 16

\* handle_midi indexes the pool (lines 159, 165) exactly for these messages.
indexes(msg) == kind(msg.status) \in {8, 9}

\* Variant of dispatch: everything that is not a note-off is a note-on.
dispatch_on_by_default(pool, msg) ==
    IF kind(msg.status) = 8
    THEN note_off(pool, msg.pitch)
    ELSE IF msg.pitch \in DOMAIN pool
         THEN note_on(pool, msg.pitch, msg.velocity, msg.time)
         ELSE pool

\* The pool after handle_midi(msg), for a message whose index is in bounds.
dispatch(pool, msg) ==
    CASE kind(msg.status) = 8 -> note_off(pool, msg.pitch)
      [] kind(msg.status) = 9 -> note_on(pool, msg.pitch, msg.velocity, msg.time)
      [] OTHER -> pool

\* History bookkeeping of handle_midi: a note event for a pitch starts or
\* cancels the count of frames kept for that pitch.  A note-off on a sounding
\* voice with no pending start starts the count "off"; a note-off that
\* follows a note-on of the same block (its start is still pending) starts
\* the count "on_off".
hist_midi(h, pool, msg) ==
    IF ~indexes(msg) THEN h
    ELSE LET nt == pool[msg.pitch]
         IN  IF /\ kind(msg.status) = 8
                /\ nt.envelope_stage[1] \in {"Attack", "Decay", "Sustain"}
                /\ nt.next_start_frame = None
             THEN [h EXCEPT ![msg.pitch] =
                      [kind |-> "off", n |-> 0, vel |-> nt.velocity,
                       amp |-> amplitude(nt), from |-> nt.envelope_stage[1]]]
             ELSE IF kind(msg.status) = 8 /\ nt.next_start_frame # None
             THEN [h EXCEPT ![msg.pitch] =
                      [kind |-> "on_off", n |-> 0, vel |-> nt.velocity,
                       amp |-> amplitude(nt), from |-> nt.envelope_stage[1]]]
             ELSE [h EXCEPT ![msg.pitch] = NoHist]

\* A note-on that finds no start pending records the velocity it replaces.
held_midi(h, pool, msg) ==
    IF /\ kind(msg.status) = 9
       /\ msg.pitch \in DOMAIN pool
       /\ pool[msg.pitch].next_start_frame = None
    THEN [h EXCEPT ![msg.pitch] = pool[msg.pitch].velocity]
    ELSE h

\* Bookkeeping of the current invocation: the first operation of an
\* invocation starts it afresh; a note-on for an indexed voice is counted.
blk_midi(b, op, msg) ==
    LET b0 == IF op = "handle_midi" THEN b ELSE [p \in DOMAIN b |-> NoBlk]
    IN  IF kind(msg.status) = 9 /\ msg.pitch \in DOMAIN b
        THEN [b0 EXCEPT ![msg.pitch] =
                 [@ EXCEPT !.ons = IF @ < 2 THEN @ + 1 ELSE @,
                           !.first = IF b0[msg.pitch].ons = 0
                                     THEN msg.time ELSE @,
                           !.o = msg.time,
                           !.v = msg.velocity]]
        ELSE b0

\* The second synthesizer of pitch p handles the message if it is a note
\* message for p, and is not called otherwise.
solo_midi(sy, p, msg) ==
    IF indexes(msg) /\ msg.pitch = p
    THEN [sy EXCEPT !.notes = dispatch(sy.notes, msg)]
    ELSE sy

\* Variant of in_midi_loop: messages are also handled between frames.
in_any_loop == TRUE

\* The process closure, lines 24-26: handle_midi is called from the loop
\* over the MIDI port, which ends before the loop over the frames begins.
in_midi_loop == pc = "midi"

handle_midi(msg) ==
    /\ ~panicked
    /\ in_midi_loop
    /\ events' = events + 1
    /\ last' = [op |-> "handle_midi", msg |-> msg]
    /\ blk' = blk_midi(blk, last.op, msg)
    /\ IF indexes(msg) /\ msg.pitch \notin Pitches
       THEN /\ panicked' = TRUE
            /\ UNCHANGED <<notes, hist, held>>
       ELSE /\ notes' = dispatch(notes, msg)
            /\ hist' = hist_midi(hist, notes, msg)
            /\ held' = held_midi(held, notes, msg)
            /\ UNCHANGED panicked
    /\ UNCHANGED <<pc, frame, env, osc>>

\* History bookkeeping of get_audio_data(f): an activation on an Off voice
\* starts a count ("on"); a retrigger of a sounding voice is remembered, with
\* the stage and amplitude it found, until the next frame ("retrigger").
hist_frame(h, nt, f) ==
    IF h.kind = "on_off"
    THEN [h EXCEPT !.n = IF @ < HistCap THEN @ + 1 ELSE @]
    ELSE IF nt.next_start_frame = Some(f)
    THEN [kind |-> IF nt.envelope_stage = Off THEN "on" ELSE "retrigger",
          n |-> 1, vel |-> nt.velocity, amp |-> amplitude(nt),
          from |-> nt.envelope_stage[1]]
    ELSE IF h.kind = "retrigger"
         THEN NoHist
         ELSE IF h.kind # "none" /\ h.n < HistCap
              THEN [h EXCEPT !.n = @ + 1]
              ELSE h

\* Bookkeeping of the current invocation: frame 0 of an invocation without
\* messages starts it afresh; a voice whose pending start is the frame
\* rendered (lines 72-77) is counted, with the target its Attack was given.
blk_frame(b, op, pool, f) ==
    [p \in DOMAIN b |->
        LET b0 == IF f = 0 /\ op # "handle_midi" THEN NoBlk ELSE b[p]
        IN  IF pool[p].next_start_frame = Some(f)
            THEN [b0 EXCEPT !.acts = IF @ < 2 THEN @ + 1 ELSE @,
                            !.at = f,
                            !.to = increment_time(pool[p], f).envelope_stage[4]]
            ELSE b0]

\* Variant of render: the loop stops at the first idle voice (`break`).
render_break(pool, f) ==
    [p \in DOMAIN pool |->
        IF \E q \in DOMAIN pool : q <= p /\ skipped(pool[q])
        THEN pool[p]
        ELSE increment_time(pool[p], f)]

\* get_audio_data, lines 170-180: the pool after the loop over the voices.
render(pool, f) ==
    [p \in DOMAIN pool |->
        IF skipped(pool[p]) THEN pool[p] ELSE increment_time(pool[p], f)]

\* get_audio_data, lines 175-176: the envelope amplitude and the phase
\* counter of each voice's term y of the frame's value.
term_amplitude(pool) ==
    [p \in DOMAIN pool |->
        IF skipped(pool[p]) THEN Zero ELSE amplitude(pool[p])]

term_time(pool) ==
    [p \in DOMAIN pool |-> IF skipped(pool[p]) THEN 0 ELSE pool[p].time]

\* The second synthesizer of a pitch renders the frame.
solo_frame(sy, f) ==
    [notes |-> render(sy.notes, f),
     env |-> term_amplitude(sy.notes),
     osc |-> term_time(sy.notes)]

get_audio_data(f) ==
    /\ ~panicked
    /\ frame = f
    /\ \A p \in Pitches : skipped(notes[p]) \/ notes[p].time < MaxTime
    /\ notes' = render(notes, f)
    /\ env' = term_amplitude(notes)
    /\ osc' = term_time(notes)
    /\ hist' = [p \in Pitches |-> hist_frame(hist[p], notes[p], f)]
    /\ blk' = blk_frame(blk, last.op, notes, f)
    /\ last' = [op |-> "get_audio_data", frame |-> f]
    /\ IF f + 1 = BlockSize
       THEN pc' = "midi" /\ frame' = 0
       ELSE pc' = "frames" /\ frame' = f + 1
    /\ UNCHANGED <<panicked, events, held>>

\* The process closure: the block's MIDI messages, then its frames in order.
\* The host delivers at most `limit` messages, drawn from `msgs`.
Deliver(msgs, limit) == events < limit /\ \E msg \in msgs : handle_midi(msg)

Render == \E f \in 0 .. (BlockSize - 1) : get_audio_data(f)

Next ==
    \/ Deliver(RawMidi, MaxEvents) /\ UNCHANGED solo
    \/ Render /\ UNCHANGED solo

Spec == Init /\ [][Next]_vars

\* The same program played on a single key: every message addresses pitch 0.
SoloMidi == {msg \in RawMidi : msg.pitch = 0}

NextSolo ==
    \/ Deliver(SoloMidi, MaxEvents + 1) /\ UNCHANGED solo
    \/ Render /\ UNCHANGED solo

SpecSolo == Init /\ [][NextSolo]_vars

\* The program, given note messages for the voices of the pool, next to one
\* second synthesizer per pitch p that is given the messages for p only and
\* renders the same frames.
NoteMidi == {msg \in RawMidi : indexes(msg) /\ msg.pitch \in Pitches}

NextShadow ==
    \/ /\ Deliver(NoteMidi, MaxEvents)
       /\ solo' = [p \in Pitches |-> solo_midi(solo[p], p, last'.msg)]
    \/ /\ Render
       /\ solo' = [p \in Pitches |-> solo_frame(solo[p], last'.frame)]

SpecShadow == Init /\ [][NextShadow]_vars

\* ------------------------------------------------------------ properties
\* The step is get_audio_data(f).
Rendered(f) == frame = f /\ last'.op = "get_audio_data" /\ last'.frame = f

\* The step is handle_midi of a message.
Handled == last'.op = "handle_midi" /\ events' = events + 1

Tag(p) == notes[p].envelope_stage[1]

\* velocity / 127 as the code computes it.
Fv(v) == FDiv(FromInt(v), FromInt(127))

\* C1 as stated: after a note-off on a sounding voice with no pending start
\* and no further event for the pitch, the voice is in Release after fewer
\* than RELEASE rendered frames and Off after exactly RELEASE of them.
C1_OffAfterReleaseFrames ==
    \A p \in Pitches :
        hist[p].kind = "off" =>
            /\ hist[p].n < RELEASE => Tag(p) = "Release"
            /\ hist[p].n = RELEASE => notes[p].envelope_stage = Off

\* C1 amended: the voice is in Release(n, a) after n <= RELEASE rendered
\* frames, a the amplitude captured by the note-off, and Off from frame
\* RELEASE + 1 on: Off is reached after exactly RELEASE + 1 frames.
C1_OffAfterReleasePlusOne ==
    \A p \in Pitches :
        hist[p].kind = "off" =>
            /\ hist[p].n <= RELEASE =>
                   notes[p].envelope_stage = Release(hist[p].n, hist[p].amp)
            /\ hist[p].n > RELEASE => notes[p].envelope_stage = Off

C1_Witness ==
    \E p \in Pitches :
        /\ hist[p].kind = "off"
        /\ hist[p].n = RELEASE + 1
        /\ hist[p].amp # Zero
        /\ notes[p].envelope_stage = Off

\* C2: when the pending note-on of a voice activates at frame f, the new
\* stage is an Attack that starts from the amplitude the voice had at frame
\* f (0 for a voice that was Off) and aims at velocity / 127.
C2_AttackStartsFromCurrentAmplitude ==
    [][\A f \in 0 .. (BlockSize - 1) : \A p \in Pitches :
          (Rendered(f) /\ notes[p].next_start_frame = Some(f)) =>
              /\ notes'[p].envelope_stage[1] = "Attack"
              /\ notes'[p].envelope_stage[3] = env'[p]
              /\ notes'[p].envelope_stage[4] = Fv(notes[p].velocity)
              /\ notes[p].envelope_stage = Off =>
                     notes'[p].envelope_stage[3] = Zero
              /\ Tag(p) = "Sustain" =>
                     notes'[p].envelope_stage[3] = notes[p].envelope_stage[2]
    ]_vars

\* A voice retriggered in Release has just started an Attack from the
\* amplitude the release had reached.
C2_Witness ==
    \E p \in Pitches :
        /\ last.op = "get_audio_data"
        /\ hist[p].kind = "retrigger"
        /\ hist[p].from = "Release"
        /\ hist[p].amp # Zero
        /\ Tag(p) = "Attack"
        /\ notes[p].envelope_stage[2] = 1
        /\ notes[p].envelope_stage[3] = hist[p].amp
        /\ notes[p].envelope_stage[3] = env[p]
        /\ notes[p].envelope_stage[3] # notes[p].envelope_stage[4]

\* The largest step of a linear ramp: full scale over the shortest phase.
MinPhase ==
    IF ATTACK <= DECAY /\ ATTACK <= RELEASE THEN ATTACK
    ELSE IF DECAY <= RELEASE THEN DECAY ELSE RELEASE

MaxStep == FDiv(FromInt(1), FromInt(MinPhase))

\* C3: the envelope amplitudes of two consecutive rendered frames of a voice
\* differ by at most one linear-ramp step.
C3_ClickFree ==
    [][\A f \in 0 .. (BlockSize - 1) : \A p \in Pitches :
          Rendered(f) => FLeq(FAbs(FSub(env'[p], env[p])), MaxStep)
    ]_vars

\* C4 as stated: counting the frames rendered from the activation frame o
\* on, the voice is in Attack for ATTACK frames, in Decay for the next DECAY
\* frames and in Sustain(v/127 * SUSTAIN) from then on.
C4_SustainAfterAttackPlusDecay ==
    \A p \in Pitches :
        hist[p].kind = "on" =>
            /\ hist[p].n <= ATTACK => Tag(p) = "Attack"
            /\ (hist[p].n > ATTACK /\ hist[p].n <= ATTACK + DECAY) =>
                   Tag(p) = "Decay"
            /\ hist[p].n > ATTACK + DECAY =>
                   notes[p].envelope_stage =
                       Sustain(FMul(Fv(hist[p].vel), SUSTAIN))

\* C4 amended: after n rendered frames, the activation frame included, the
\* voice is in Attack(n, 0, v/127) for n <= ATTACK, in Decay(n - ATTACK - 1,
\* v/127, v/127 * SUSTAIN) for the next DECAY + 1 frames, and in
\* Sustain(v/127 * SUSTAIN) from n = ATTACK + DECAY + 2 on; the amplitude
\* rendered is 0 at the activation frame, v/127 up to f32 rounding at the
\* frame that ends the Attack, v/127 * SUSTAIN up to f32 rounding at the
\* frame that ends the Decay and exactly v/127 * SUSTAIN in Sustain.
C4_SustainAfterAttackDecayPlusTwo ==
    \A p \in Pitches :
        hist[p].kind = "on" =>
            LET n == hist[p].n
                fv == Fv(hist[p].vel)
                lvl == FMul(fv, SUSTAIN)
            IN  /\ n <= ATTACK =>
                       notes[p].envelope_stage = Attack(n, Zero, fv)
                /\ (n > ATTACK /\ n <= ATTACK + DECAY + 1) =>
                       notes[p].envelope_stage = Decay(n - ATTACK - 1, fv, lvl)
                /\ n >= ATTACK + DECAY + 2 =>
                       notes[p].envelope_stage = Sustain(lvl)
                /\ n = 1 => env[p] = Zero
                /\ n = ATTACK + 1 => Close(env[p], fv)
                /\ n = ATTACK + DECAY + 2 => Close(env[p], lvl)
                /\ n > ATTACK + DECAY + 2 => env[p] = lvl

C4_Witness ==
    \E p \in Pitches :
        /\ hist[p].kind = "on"
        /\ hist[p].n = ATTACK + DECAY + 2
        /\ hist[p].vel = 127
        /\ notes[p].envelope_stage = Sustain(SUSTAIN)
        /\ Close(env[p], SUSTAIN)

Frames == 0 .. (BlockSize - 1)

\* Voice p has a start pending at a frame later than f.
PendingAfter(p, f) ==
    /\ notes[p].next_start_frame # None
    /\ f < notes[p].next_start_frame[1]

\* C5 as stated: on a frame rendered before the pending start of a voice,
\* the voice contributes 0 and neither its time nor its stage advances.
C5_PendingVoiceFrozen ==
    [][\A f \in Frames : \A p \in Pitches :
          (Rendered(f) /\ PendingAfter(p, f)) =>
              /\ env'[p] = Zero
              /\ notes'[p].time = notes[p].time
              /\ notes'[p].envelope_stage = notes[p].envelope_stage
    ]_vars

\* C5 amended: on such a frame the pending start is kept and time advances
\* by 1; a voice that is Off contributes 0 and stays Off, a voice in Sustain
\* contributes its level and stays in Sustain, and a voice in Attack, Decay
\* or Release contributes and advances its envelope.
C5_PendingVoiceSilentOnlyIfOff ==
    [][\A f \in Frames : \A p \in Pitches :
          (Rendered(f) /\ PendingAfter(p, f)) =>
              /\ notes'[p].next_start_frame = notes[p].next_start_frame
              /\ notes'[p].time = notes[p].time + 1
              /\ Tag(p) = "Off" =>
                     /\ env'[p] = Zero
                     /\ notes'[p].envelope_stage = Off
              /\ Tag(p) = "Sustain" =>
                     /\ env'[p] = notes[p].envelope_stage[2]
                     /\ notes'[p].envelope_stage = notes[p].envelope_stage
              /\ Tag(p) \in {"Attack", "Decay", "Release"} =>
                     /\ env'[p] = amplitude(notes[p])
                     /\ notes'[p].envelope_stage # notes[p].envelope_stage
    ]_vars

\* A frame has been rendered for a sounding voice that waits for a later
\* start frame: it contributed and its counter and envelope advanced.
C5_Witness ==
    /\ last.op = "get_audio_data"
    /\ \E p \in Pitches :
           /\ notes[p].next_start_frame # None
           /\ env[p] # Zero
           /\ notes[p].time > 1
           /\ Tag(p) \in {"Attack", "Decay", "Release"}

\* The render loop processes the voice (it is not Off without a pending start).
Processed(p) ==
    notes[p].envelope_stage # Off \/ notes[p].next_start_frame # None

\* C6 as stated: the counter is 0 at the frame on which a pending note-on
\* activates (before or after that frame's increment it is at most 1), and
\* on every other rendered frame of the voice it grows by exactly 1.
C6_TimeZeroAtActivation ==
    [][\A f \in Frames : \A p \in Pitches :
          (Rendered(f) /\ Processed(p)) =>
              IF notes[p].next_start_frame = Some(f)
              THEN notes'[p].time <= 1
              ELSE notes'[p].time = notes[p].time + 1
    ]_vars

\* C6 amended: the counter is never reset: every rendered frame on which the
\* voice is processed, the activation frame included, adds exactly 1 to it,
\* and no other step changes it.
C6_TimeNeverReset ==
    [][\A p \in Pitches :
          notes'[p].time =
              IF (\E f \in Frames : Rendered(f)) /\ Processed(p)
              THEN notes[p].time + 1
              ELSE notes[p].time
    ]_vars

\* A note-on has just activated on a voice whose counter was already running.
C6_Witness ==
    \E p \in Pitches :
        /\ last.op = "get_audio_data"
        /\ Tag(p) = "Attack"
        /\ notes[p].envelope_stage[2] = 1
        /\ notes[p].next_start_frame = None
        /\ notes[p].time > 2

AllZero == [p \in Pitches |-> Zero]

\* C7: a rendered frame adds 0 for every voice that is Off with no pending
\* start and leaves that voice unchanged; a synthesizer that has received no
\* event is in its constructed state and outputs 0.
C7_IdleVoicesUntouched ==
    [][/\ \A f \in Frames : \A p \in Pitches :
             (/\ Rendered(f)
              /\ notes[p].envelope_stage = Off
              /\ notes[p].next_start_frame = None) =>
                 /\ notes'[p] = notes[p]
                 /\ env'[p] = Zero
       /\ events' = 0 =>
             /\ notes' = [p \in Pitches |-> Note_new]
             /\ env' = AllZero
    ]_vars

\* A frame was rendered while one voice sounded and another, played before,
\* was idle again.
C7_Witness ==
    /\ last.op = "get_audio_data"
    /\ \E p \in Pitches :
           /\ notes[p].envelope_stage = Off
           /\ notes[p].next_start_frame = None
           /\ notes[p].time > 0
           /\ env[p] = Zero
    /\ \E q \in Pitches : env[q] # Zero

\* C8: a message whose status high nibble is neither 0b1000 nor 0b1001
\* leaves every voice unchanged and raises no error, whatever its data bytes.
C8_UnknownStatusIgnored ==
    [][(Handled /\ (last'.msg.status \div 16) \notin {8, 9}) =>
          /\ notes' = notes
          /\ panicked' = FALSE
    ]_vars

\* Such a message, with a pitch byte beyond the pool, was handled while a
\* voice was sounding.
C8_Witness ==
    /\ last.op = "handle_midi"
    /\ last.msg.status = 160
    /\ last.msg.pitch \notin Pitches
    /\ ~panicked
    /\ \E p \in Pitches : Tag(p) # "Off"

\* C9: a note-on or note-off whose pitch byte is outside the pool leaves every
\* voice unchanged and causes no failure.
C9_OutOfRangePitchRejected ==
    [][(/\ Handled
        /\ (last'.msg.status \div 16) \in {8, 9}
        /\ last'.msg.pitch \notin Pitches) =>
          /\ notes' = notes
          /\ panicked' = FALSE
    ]_vars

\* The stage voice p would have after frame f had its pending note-on not
\* been received: no start pending, velocity as before the note-on.
StageWithoutNoteOn(p, f) ==
    IF notes[p].envelope_stage = Off
    THEN Off
    ELSE increment_time([notes[p] EXCEPT !.velocity = held[p],
                                         !.next_start_frame = None],
                        f).envelope_stage

\* C10, second and third part: the voice enters Attack, and its pending start
\* is cleared, exactly when the frame of the pending start is rendered; when
\* a block has been rendered no start is pending.
C10_ActivationAtStartFrame ==
    [][\A f \in Frames : \A p \in Pitches :
          Rendered(f) =>
              /\ notes[p].next_start_frame = Some(f) =>
                     /\ notes'[p].next_start_frame = None
                     /\ notes'[p].envelope_stage[1] = "Attack"
                     /\ notes'[p].envelope_stage[2] = 1
              /\ notes[p].next_start_frame # Some(f) =>
                     /\ notes'[p].next_start_frame = notes[p].next_start_frame
                     /\ ~(/\ notes'[p].envelope_stage[1] = "Attack"
                          /\ Tag(p) # "Attack")
              /\ pc' = "midi" => notes'[p].next_start_frame = None
    ]_vars

\* C10: a note-on(p, v, o) does not change the envelope stage of the voice on
\* the frames before o, the voice enters Attack when frame o of the block is
\* rendered and at no other frame, the pending start is cleared then, and no
\* start is pending at the end of a block.
C10_SampleAccurateScheduling ==
    [][\A f \in Frames : \A p \in Pitches :
          Rendered(f) =>
              /\ PendingAfter(p, f) =>
                     notes'[p].envelope_stage = StageWithoutNoteOn(p, f)
              /\ notes[p].next_start_frame = Some(f) =>
                     /\ notes'[p].next_start_frame = None
                     /\ notes'[p].envelope_stage[1] = "Attack"
              /\ notes[p].next_start_frame # Some(f) =>
                     /\ notes'[p].next_start_frame = notes[p].next_start_frame
                     /\ ~(/\ notes'[p].envelope_stage[1] = "Attack"
                          /\ Tag(p) # "Attack")
              /\ pc' = "midi" => notes'[p].next_start_frame = None
    ]_vars

\* C11: the voice of every pitch p goes through the states it goes through
\* in a synthesizer that is given only the note messages for p, and the terms
\* of each frame's value are those of the single-pitch synthesizers: the term
\* of voice p is the term p has on its own, and a synthesizer played on p
\* alone adds nothing for any other pitch.
C11_Superposition ==
    \A p \in Pitches :
        /\ notes[p] = solo[p].notes[p]
        /\ env[p] = solo[p].env[p]
        /\ osc[p] = solo[p].osc[p]
        /\ \A q \in Pitches \ {p} :
               /\ solo[p].env[q] = Zero
               /\ solo[p].osc[q] = 0

\* Two note-ons with different velocities, both activated on the same frame
\* of one block, and both voices have sounded for at least two frames.
C11_Witness ==
    \E p \in Pitches : \E q \in Pitches \ {p} :
        /\ last.op = "get_audio_data"
        /\ hist[p].kind = "on" /\ hist[q].kind = "on"
        /\ hist[p].n = hist[q].n
        /\ hist[p].n > 2
        /\ hist[p].vel # hist[q].vel
        /\ env[p] # Zero /\ env[q] # Zero
        /\ env[p] # env[q]

\* C12: when a note-on for p is followed in the same block by a note-off for
\* p and by no further event for p, the note-off is the last to take effect:
\* once the block and a whole release (RELEASE + 1 frames) have been
\* rendered, the voice is Off with no pending start.
C12_NoteOffAfterNoteOnEndsOff ==
    \A p \in Pitches :
        (hist[p].kind = "on_off" /\ hist[p].n >= BlockSize + RELEASE + 1) =>
            /\ notes[p].envelope_stage = Off
            /\ notes[p].next_start_frame = None

\* What the code does in that case: the voice ends up in Sustain and, with no
\* further event for p, stays there.
C12_StuckInSustain ==
    \A p \in Pitches :
        hist[p].kind = "on_off" =>
            /\ hist[p].n >= BlockSize + ATTACK + DECAY + 1 =>
                   notes[p].envelope_stage =
                       Sustain(FMul(Fv(notes[p].velocity), SUSTAIN))
            /\ hist[p].n >= BlockSize => notes[p].envelope_stage # Off

\* C13: handle_midi of a note-off for p, whatever its frame offset and in
\* whatever state, sets the stage of voice p to Release(0, a), a the envelope
\* amplitude of the stage it replaces (0 for Off, the level for Sustain, the
\* start amplitude for a ramp that has not advanced yet), at once; velocity,
\* time and pending start of p and every other voice are unchanged.
C13_NoteOffReleasesFromCurrentAmplitude ==
    [][(/\ Handled
        /\ (last'.msg.status \div 16) = 8
        /\ last'.msg.pitch \in Pitches) =>
          LET p == last'.msg.pitch
              st == notes[p].envelope_stage
          IN  /\ notes'[p].envelope_stage = Release(0, amplitude(notes[p]))
              /\ st = Off => notes'[p].envelope_stage = Release(0, Zero)
              /\ st[1] = "Sustain" =>
                     notes'[p].envelope_stage = Release(0, st[2])
              /\ (st[1] \in {"Attack", "Decay", "Release"} /\ st[2] = 0) =>
                     notes'[p].envelope_stage = Release(0, st[3])
              /\ notes'[p].velocity = notes[p].velocity
              /\ notes'[p].time = notes[p].time
              /\ notes'[p].next_start_frame = notes[p].next_start_frame
              /\ \A q \in Pitches \ {p} : notes'[q] = notes[q]
              /\ panicked' = FALSE
    ]_vars

\* A note-off with a frame offset other than 0 has just put a voice that
\* was sounding below its full level into Release(0, a).
C13_Witness ==
    /\ last.op = "handle_midi"
    /\ last.msg.status = 128
    /\ last.msg.time > 0
    /\ last.msg.pitch \in Pitches
    /\ LET nt == notes[last.msg.pitch]
       IN  /\ nt.envelope_stage[1] = "Release"
           /\ nt.envelope_stage[2] = 0
           /\ nt.envelope_stage[3] # Zero
           /\ nt.envelope_stage[3] # fractional_velocity(nt)
           /\ nt.time > 0

\* C14: handle_midi of a note-on (p, v, o) sets the velocity of voice p to v
\* and its pending start to Some(o) and changes nothing else; and when an
\* invocation has handled two or more note-ons for p, then once its frames
\* are rendered voice p has been activated exactly once, at the offset and
\* towards the velocity of the latest of them.
C14_NoteOnSetsVelocityAndPendingStart ==
    [][/\ (/\ Handled
           /\ (last'.msg.status \div 16) = 9
           /\ last'.msg.pitch \in Pitches) =>
             LET p == last'.msg.pitch
             IN  /\ notes'[p].velocity = last'.msg.velocity
                 /\ notes'[p].next_start_frame = Some(last'.msg.time)
                 /\ notes'[p].envelope_stage = notes[p].envelope_stage
                 /\ notes'[p].time = notes[p].time
                 /\ \A q \in Pitches \ {p} : notes'[q] = notes[q]
                 /\ panicked' = FALSE
       /\ \A p \in Pitches :
             /\ blk'[p].acts <= 1
             /\ (blk'[p].ons = 2 /\ last'.op = "handle_midi") =>
                    /\ blk'[p].acts = 0
                    /\ notes'[p].velocity = blk'[p].v
                    /\ notes'[p].next_start_frame = Some(blk'[p].o)
             /\ (blk'[p].ons = 2 /\ last'.op = "get_audio_data"
                                  /\ pc' = "midi") =>
                    /\ blk'[p].acts = 1
                    /\ blk'[p].at = blk'[p].o
                    /\ blk'[p].to = Fv(blk'[p].v)
                    /\ notes'[p].next_start_frame = None
    ]_vars

\* An invocation that handled two note-ons for a voice, the later with the
\* earlier offset, has rendered its frames: the voice was activated once, at
\* the later note-on's offset.
C14_Witness ==
    \E p \in Pitches :
        /\ last.op = "get_audio_data"
        /\ pc = "midi"
        /\ blk[p].ons = 2
        /\ blk[p].o < blk[p].first
        /\ blk[p].acts = 1
        /\ blk[p].at = blk[p].o
        /\ blk[p].v > 0

\* C15: in every reachable state of the pool, handle_midi of a note-on or
\* note-off m1 followed by a note-on or note-off m2 for another pitch leaves
\* the pool in the state that m2 followed by m1 leaves it in.
C15_DifferentPitchesCommute ==
    [][(/\ Handled
        /\ indexes(last'.msg)
        /\ last'.msg.pitch \in Pitches) =>
          \A m2 \in NoteMidi :
              m2.pitch # last'.msg.pitch =>
                  dispatch(notes', m2) = dispatch(dispatch(notes, m2), last'.msg)
    ]_vars

\* One invocation has handled a note-off for a voice and then a note-on for
\* another one, pending now, while the first is in Release.
C15_Witness ==
    /\ last.op = "handle_midi"
    /\ last.msg.status = 144
    /\ last.msg.pitch \in Pitches
    /\ blk[last.msg.pitch].ons = 1
    /\ notes[last.msg.pitch].next_start_frame # None
    /\ \E p \in Pitches \ {last.msg.pitch} :
           /\ Tag(p) = "Release"
           /\ notes[p].envelope_stage[2] = 0

\* The operation before this state ended an invocation of the closure or
\* was the construction: the next operation begins an invocation.
AtInvocationStart ==
    \/ last.op = "new"
    \/ last.op = "get_audio_data" /\ last.frame = BlockSize - 1

\* C16: handle_midi is called only at the start of an invocation or after
\* another handle_midi of it, never after a frame of the same invocation;
\* get_audio_data(0) is called only at the start of an invocation or after
\* its last handle_midi; get_audio_data(f), f > 0, only directly after
\* get_audio_data(f - 1); and the frame after the last of a block is frame 0
\* of the next invocation.
C16_EventsThenFramesInOrder ==
    [][/\ last'.op = "handle_midi" =>
             AtInvocationStart \/ last.op = "handle_midi"
       /\ last'.op = "get_audio_data" =>
             /\ last'.frame \in Frames
             /\ last'.frame = 0 =>
                    AtInvocationStart \/ last.op = "handle_midi"
             /\ last'.frame > 0 =>
                    /\ last.op = "get_audio_data"
                    /\ last.frame = last'.frame - 1
    ]_vars

\* An invocation that handled two note-ons has rendered its last frame, and
\* it was not the first invocation.
C16_Witness ==
    /\ last.op = "get_audio_data"
    /\ last.frame = BlockSize - 1
    /\ \E p \in Pitches : blk[p].ons = 2 /\ notes[p].time > BlockSize

\* C17: while the frames that follow a note-off on a sounding voice are
\* rendered, with no further event for the pitch, the amplitude rendered
\* never exceeds that of the frame before, falls by at most a / RELEASE from
\* one frame to the next (a the amplitude captured by the note-off), and is
\* exactly 0 on the last Release frame and on every frame after it.
C17_ReleaseRampReachesZero ==
    [][\A f \in Frames : \A p \in Pitches :
          (Rendered(f) /\ hist'[p].kind = "off") =>
              LET n == hist'[p].n
                  a == hist'[p].amp
              IN  /\ n >= 2 => FLeq(env'[p], env[p])
                  /\ (n >= 2 /\ n <= RELEASE + 1) =>
                         StepLeq(RELEASE, env[p], env'[p], a)
                  /\ n >= RELEASE + 1 => env'[p] = Zero
    ]_vars

\* What the code does: over the Release frames the amplitude never exceeds
\* that of the frame before; on the last of them it is 0 only up to f32
\* rounding of a - a * RELEASE / RELEASE (at most a * 2^-22 in magnitude, of
\* either sign); on every frame after it the voice is Off and adds 0.
C17_ReleaseRampEndsNearZero ==
    [][\A f \in Frames : \A p \in Pitches :
          (Rendered(f) /\ hist'[p].kind = "off") =>
              LET n == hist'[p].n
                  a == hist'[p].amp
              IN  /\ (n >= 2 /\ n <= RELEASE + 1) => FLeq(env'[p], env[p])
                  /\ n = RELEASE + 1 =>
                         FLeq(FAbs(env'[p]), FMul(FAbs(a), Ulps))
                  /\ n > RELEASE + 1 => env'[p] = Zero
    ]_vars

\* C18: the stage of a voice that is in Sustain(level) or Off changes in a
\* step only if the step handles a note-off for its pitch or renders the
\* frame of its pending start, which puts it in Attack: with no pending
\* start, no number of rendered frames changes the stage or the level.
C18_SustainAndOffAreStable ==
    [][\A p \in Pitches :
          (/\ Tag(p) \in {"Sustain", "Off"}
           /\ notes'[p].envelope_stage # notes[p].envelope_stage) =>
              \/ /\ Handled
                 /\ (last'.msg.status \div 16) = 8
                 /\ last'.msg.pitch = p
                 /\ notes'[p].envelope_stage[1] = "Release"
              \/ \E f \in Frames :
                     /\ Rendered(f)
                     /\ notes[p].next_start_frame = Some(f)
                     /\ notes'[p].envelope_stage[1] = "Attack"
    ]_vars

\* A voice has been in the same Sustain(level) for more than a block of
\* rendered frames, with no event for its pitch since its note-on.
C18_Witness ==
    \E p \in Pitches :
        /\ last.op = "get_audio_data"
        /\ hist[p].kind = "on"
        /\ hist[p].n > ATTACK + DECAY + 2 + BlockSize
        /\ Tag(p) = "Sustain"
        /\ notes[p].envelope_stage[2] # Zero
        /\ env[p] = notes[p].envelope_stage[2]
        /\ notes[p].next_start_frame = None

\* The phase timer of every voice is within the duration of its phase.
TimersWithinPhase ==
    \A p \in Pitches :
        LET st == notes[p].envelope_stage
        IN  /\ st[1] = "Attack" => st[2] <= ATTACK
            /\ st[1] = "Decay" => st[2] <= DECAY
            /\ st[1] = "Release" => st[2] <= RELEASE

\* C19: in every reachable state the phase timer of every voice is within
\* the duration of its phase, its envelope amplitude lies in [0, 1] and the
\* magnitude of MAX_AMPLITUDE * amplitude is at most MAX_AMPLITUDE.
C19_TimersAndAmplitudeWithinBounds ==
    /\ TimersWithinPhase
    /\ \A p \in Pitches :
           LET a == amplitude(notes[p])
           IN  /\ FLeq(Zero, a)
               /\ FLeq(a, FromInt(1))
               /\ FLeq(FAbs(FMul(MAX_AMPLITUDE, a)), MAX_AMPLITUDE)

\* What the code does: the timers are within their phases, and the amplitude
\* leaves [0, 1] by no more than a rounding residue (2^-22): below 0 where a
\* Release ends (C17), above 1 where an Attack towards velocity 127 ends.
C19_AmplitudeWithinRounding ==
    /\ TimersWithinPhase
    /\ \A p \in Pitches :
           LET a == amplitude(notes[p])
           IN  /\ FLeq(FNeg(Ulps), a)
               /\ FLeq(a, FAdd(FromInt(1), Ulps))
====
